---------------------------- MODULE Spec2Model ----------------------------
(***************************************************************************)
(* Model of src/ROI_calculator.py: the working-capital cycle simulation of *)
(* the Streamlit script (lines 162-259) and compute_emi_schedule_year      *)
(* (lines 34-78).                                                          *)
(*                                                                         *)
(* Every amount is a Python float.  The model computes with IEEE-754       *)
(* doubles bit for bit: a double is its sign, odd significand and          *)
(* exponent, and +, -, *, /, round(x, 2), math.floor, math.ceil and the    *)
(* comparisons give the double (or the exception) that Python gives.       *)
(* pow() of the C library is not correctly rounded, so that ** is the set  *)
(* of the doubles it can give: one double except for a power within 1/32   *)
(* ulp of the midpoint of two doubles.                                     *)
(*                                                                         *)
(* Amounts typed in the sidebar are finite numbers.                        *)
(***************************************************************************)
EXTENDS Integers, Sequences, FiniteSets

----------------------------------------------------------------------------
(* Natural numbers of any size: the significands of doubles and their      *)
(* exact sums, products and quotients.  A number is the sequence of its    *)
(* limbs, least significant first, without leading zero limbs; <<>> is 0.  *)

LimbBits == 13
Radix == 2 ^ LimbBits

Abs(x) == IF x < 0 THEN -x ELSE x
Larger(x, y) == IF x >= y THEN x ELSE y
Smaller(x, y) == IF x <= y THEN x ELSE y

LimbAt(a, i) == IF i >= 1 /\ i <= Len(a) THEN a[i] ELSE 0

RECURSIVE Trim(_)
\* a without its leading zero limbs
Trim(a) ==
    IF Len(a) = 0 THEN <<>>
    ELSE IF a[Len(a)] # 0 THEN a
    ELSE Trim(SubSeq(a, 1, Len(a) - 1))

\* an integer 0 <= n < 2^31
Limbs(n) == Trim(<<n % Radix, (n \div Radix) % Radix, n \div (Radix * Radix)>>)

\* a number below 2^31 as an integer
ToInt(a) == LimbAt(a, 1) + Radix * LimbAt(a, 2) + Radix * Radix * LimbAt(a, 3)

RECURSIVE Carried(_, _, _)
\* the limbs of sum of cols[j] * Radix^(j-1), from column i on with carry c
Carried(cols, i, c) ==
    IF i > Len(cols) /\ c = 0 THEN <<>>
    ELSE <<(LimbAt(cols, i) + c) % Radix>>
             \o Carried(cols, i + 1, (LimbAt(cols, i) + c) \div Radix)

\* a + b
NatAdd(a, b) ==
    Carried([i \in 1..Larger(Len(a), Len(b)) |-> LimbAt(a, i) + LimbAt(b, i)],
            1, 0)

RECURSIVE Borrowed(_, _, _, _)
\* the limbs of a - b from limb i on, with borrow br
Borrowed(a, b, i, br) ==
    IF i > Len(a) THEN <<>>
    ELSE <<(a[i] - LimbAt(b, i) - br + Radix) % Radix>>
             \o Borrowed(a, b, i + 1,
                         IF a[i] - LimbAt(b, i) - br < 0 THEN 1 ELSE 0)

\* a - b for a >= b
NatSub(a, b) == Trim(Borrowed(a, b, 1, 0))

RECURSIVE ColSum(_, _, _, _, _)
\* sum of a[i] * b[k + 1 - i] for i in lo..hi
ColSum(a, b, k, lo, hi) ==
    IF lo > hi THEN 0
    ELSE a[lo] * b[k + 1 - lo] + ColSum(a, b, k, lo + 1, hi)

\* a * b
NatMul(a, b) ==
    IF Len(a) = 0 \/ Len(b) = 0 THEN <<>>
    ELSE Carried([k \in 1..(Len(a) + Len(b) - 1) |->
                     ColSum(a, b, k, Larger(1, k + 1 - Len(b)),
                            Smaller(Len(a), k))],
                 1, 0)

RECURSIVE CmpFrom(_, _, _)
\* a against b, numbers of the same length, from limb i down
CmpFrom(a, b, i) ==
    IF i = 0 THEN 0
    ELSE IF a[i] > b[i] THEN 1
    ELSE IF a[i] < b[i] THEN -1
    ELSE CmpFrom(a, b, i - 1)

\* 1, 0 or -1 as a > b, a = b or a < b
NatCmp(a, b) ==
    IF Len(a) > Len(b) THEN 1
    ELSE IF Len(a) < Len(b) THEN -1
    ELSE CmpFrom(a, b, Len(a))

\* the number of binary digits
NatBits(a) ==
    IF Len(a) = 0 THEN 0
    ELSE LimbBits * (Len(a) - 1)
             + Cardinality({k \in 0..(LimbBits - 1) : 2 ^ k <= a[Len(a)]})

\* a limb of a * 2^r for r < LimbBits, from the limb cur of a and the one below
ShlLimb(cur, below, r) ==
    ((cur * 2 ^ r) % Radix) + (below \div 2 ^ (LimbBits - r))

\* a * 2^k
NatShl(a, k) ==
    IF Len(a) = 0 THEN <<>>
    ELSE Trim([j \in 1..(Len(a) + k \div LimbBits + 1) |->
                  ShlLimb(LimbAt(a, j - k \div LimbBits),
                          LimbAt(a, j - k \div LimbBits - 1), k % LimbBits)])

\* a limb of floor(a / 2^r) for r < LimbBits, from the limb cur of a and the
\* one above
ShrLimb(cur, above, r) ==
    (cur \div 2 ^ r) + ((above % (2 ^ r)) * 2 ^ (LimbBits - r))

\* floor(a / 2^k)
NatShr(a, k) ==
    IF Len(a) <= k \div LimbBits THEN <<>>
    ELSE Trim([j \in 1..(Len(a) - k \div LimbBits) |->
                  ShrLimb(a[j + k \div LimbBits],
                          LimbAt(a, j + k \div LimbBits + 1), k % LimbBits)])

\* binary digit k of a (digit 0 is the lowest)
NatBit(a, k) == (LimbAt(a, k \div LimbBits + 1) \div 2 ^ (k % LimbBits)) % 2

\* the k lowest binary digits of a are all 0
NatLowZero(a, k) ==
    /\ \A i \in 1..Smaller(Len(a), k \div LimbBits) : a[i] = 0
    /\ LimbAt(a, k \div LimbBits + 1) % 2 ^ (k % LimbBits) = 0

\* the number of zero binary digits below the lowest 1 of a limb x > 0
LimbTrailingZeros(x) == Cardinality({k \in 1..LimbBits : x % 2 ^ k = 0})

\* the number of zero limbs below the lowest nonzero limb of a > 0
ZeroLimbs(a) == Cardinality({i \in 1..Len(a) : \A j \in 1..i : a[j] = 0})

\* the number of zero binary digits below the lowest 1 of a > 0
NatTrailingZeros(a) ==
    LimbBits * ZeroLimbs(a) + LimbTrailingZeros(a[ZeroLimbs(a) + 1])

\* an estimate of floor(r / d) for r < d * Radix and a d whose top limb is
\* at least Radix / 2: the quotient of the top limbs, at most 2 too large
Digit(r, d) ==
    Smaller((LimbAt(r, Len(d)) + Radix * LimbAt(r, Len(d) + 1)) \div d[Len(d)],
            Radix - 1)

RECURSIVE LongDiv(_, _, _, _, _)
RECURSIVE LongDivDigit(_, _, _, _, _, _, _)

\* the quotient digit dg with p = dg * d is lowered until p <= r1, then the
\* remainder r1 is reduced by p
LongDivDigit(n, d, k, q, r1, dg, p) ==
    IF NatCmp(p, r1) <= 0 THEN LongDiv(n, d, k, <<dg>> \o q, NatSub(r1, p))
    ELSE LongDivDigit(n, d, k, q, r1, dg - 1, NatSub(p, d))

\* the estimated quotient digit for the remainder r1
LongDivEstimate(n, d, k, q, r1, dg) ==
    LongDivDigit(n, d, k, q, r1, dg, NatMul(d, Limbs(dg)))

\* the next limb of n brought down onto the remainder
LongDivLimb(n, d, k, q, r1) == LongDivEstimate(n, d, k, q, r1, Digit(r1, d))

\* long division of n by d to k quotient digits, of which q are found and
\* leave the remainder r
LongDiv(n, d, k, q, r) ==
    IF Len(q) = k THEN [quotient |-> Trim(q), remainder |-> r]
    ELSE LongDivLimb(n, d, k, q, Trim(<<n[k - Len(q)]>> \o r))

\* the limbs of n above the lowest k
TopLimbs(n, k) == SubSeq(n, k + 1, Len(n))

\* n / d for a d whose top limb is at least Radix / 2
LongDivFrom(n, d) ==
    IF Len(n) < Len(d) THEN [quotient |-> <<>>, remainder |-> n]
    ELSE LongDiv(n, d, Len(n) - Len(d) + 1, <<>>,
                 TopLimbs(n, Len(n) - Len(d) + 1))

\* the shift that brings the top limb of d > 0 to Radix / 2 or more
NormShift(d) == (LimbBits - (NatBits(d) % LimbBits)) % LimbBits

\* n / d for d > 0: the quotient, and the remainder times 2^NormShift(d)
NatDivMod(n, d) == LongDivFrom(NatShl(n, NormShift(d)), NatShl(d, NormShift(d)))

----------------------------------------------------------------------------
(* Doubles: the floats of the source.                                      *)
(*   <<s, m, e>>   the finite double s * m * 2^e, s = 1 or -1, m odd (or   *)
(*                 m = 0 and e = 0: the zeros 0.0 and -0.0)                *)
(*   <<s, "inf">>  float("inf") and float("-inf")                          *)
(*   <<0, "nan">>  float("nan")                                            *)

\* a double has 53 significant bits and is below 2^1024; the smallest
\* positive one is 2^-1074
SignificandBits == 53
MaxExponent == 1024
MinExponent == -1074

PosZero == <<1, <<>>, 0>>
NegZero == <<-1, <<>>, 0>>
Infinity == <<1, "inf">>
NaN == <<0, "nan">>

IsFinite(x) == Len(x) = 3
IsNaN(x) == Len(x) = 2 /\ x[1] = 0
IsInf(x) == Len(x) = 2 /\ x[1] # 0
IsZero(x) == Len(x) = 3 /\ Len(x[2]) = 0

\* exceptions raised by the float operators
ZeroDivisionError == <<"ZeroDivisionError">>
OverflowError == <<"OverflowError">>
IsError(x) == Len(x) = 1

\* s * m * 2^e with its trailing zero bits z moved into the exponent
Odd(s, m, e, z) == <<s, NatShr(m, z), e + z>>

\* the double s * m * 2^e for an m of at most 53 bits and e >= -1074:
\* float("inf") from 2^1024 on
Double(s, m, e) ==
    IF Len(m) = 0 THEN <<s, <<>>, 0>>
    ELSE IF NatBits(m) + e > MaxExponent THEN <<s, "inf">>
    ELSE Odd(s, m, e, NatTrailingZeros(m))

\* the number of low bits of m * 2^e that a double does not hold
Dropped(m, e) == Larger(NatBits(m) - SignificandBits, MinExponent - e)

\* round to nearest, ties to even: whether dropping the k low bits of m,
\* with more nonzero bits below them when sticky, rounds up
RoundsUp(m, k, sticky) ==
    /\ NatBit(m, k - 1) = 1
    /\ sticky \/ ~NatLowZero(m, k - 1) \/ NatBit(m, k) = 1

\* m / 2^k rounded to an integer
Kept(m, k, sticky) ==
    IF k <= 0 THEN m
    ELSE IF RoundsUp(m, k, sticky) THEN NatAdd(NatShr(m, k), <<1>>)
    ELSE NatShr(m, k)

Rounded(s, m, e, sticky, k) == Double(s, Kept(m, k, sticky), e + Larger(k, 0))

\* the double nearest to s * (m + f) * 2^e, where 0 <= f < 1 and f > 0 just
\* when sticky (then m has more than 54 bits)
Round(s, m, e, sticky) == Rounded(s, m, e, sticky, Dropped(m, e))

\* s * m * 2^e, or with sticky a value strictly between that and
\* s * (m + 1) * 2^e
Exact(s, m, e, sticky) == [s |-> s, m |-> m, e |-> e, sticky |-> sticky]

\* the double nearest to an exact value
RoundExact(t) == Round(t.s, t.m, t.e, t.sticky)

\* float(n) of an integer |n| < 2^31
F(n) == Double(IF n < 0 THEN -1 ELSE 1, Limbs(Abs(n)), 0)

Zero == PosZero
One == F(1)

\* -a
FNeg(a) == IF IsNaN(a) THEN a ELSE [a EXCEPT ![1] = -a[1]]

\* the exponent of the bit above the highest bit of a finite a # 0
Top(a) == a[3] + NatBits(a[2])

\* bits kept below the smaller operand of a sum before it counts as a
\* remainder only
GuardBits == 64

\* |b| is less than 2^-64 of the lowest bit of a
Far(a, b) == a[3] - Top(b) >= GuardBits

\* a + b for such a and b: a, and a remainder with the sign of b
SumFar(a, b) ==
    IF a[1] = b[1]
    THEN Exact(a[1], NatShl(a[2], GuardBits), a[3] - GuardBits, TRUE)
    ELSE Exact(a[1], NatSub(NatShl(a[2], GuardBits), <<1>>), a[3] - GuardBits,
               TRUE)

\* sa * ma * 2^e + sb * mb * 2^e
SignedSum(sa, ma, sb, mb, e) ==
    IF sa = sb THEN Exact(sa, NatAdd(ma, mb), e, FALSE)
    ELSE IF NatCmp(ma, mb) > 0 THEN Exact(sa, NatSub(ma, mb), e, FALSE)
    ELSE IF NatCmp(ma, mb) < 0 THEN Exact(sb, NatSub(mb, ma), e, FALSE)
    ELSE Exact(1, <<>>, e, FALSE)

\* the significand of a finite a for the exponent e <= a[3]
Aligned(a, e) == NatShl(a[2], a[3] - e)

SumNear(a, b, e) == SignedSum(a[1], Aligned(a, e), b[1], Aligned(b, e), e)

\* a + b exactly, for finite a # 0 and b # 0
ExactSum(a, b) ==
    IF Far(a, b) THEN SumFar(a, b)
    ELSE IF Far(b, a) THEN SumFar(b, a)
    ELSE SumNear(a, b, Smaller(a[3], b[3]))

\* a + b
FAdd(a, b) ==
    IF IsNaN(a) \/ IsNaN(b) THEN NaN
    ELSE IF IsInf(a) THEN (IF IsInf(b) /\ b[1] # a[1] THEN NaN ELSE a)
    ELSE IF IsInf(b) THEN b
    ELSE IF IsZero(a) /\ IsZero(b)
    THEN (IF a[1] = -1 /\ b[1] = -1 THEN NegZero ELSE PosZero)
    ELSE IF IsZero(a) THEN b
    ELSE IF IsZero(b) THEN a
    ELSE RoundExact(ExactSum(a, b))

\* a - b
FSub(a, b) == FAdd(a, FNeg(b))

\* a * b
FMul(a, b) ==
    IF IsNaN(a) \/ IsNaN(b) THEN NaN
    ELSE IF IsInf(a) \/ IsInf(b)
    THEN (IF IsZero(a) \/ IsZero(b) THEN NaN ELSE <<a[1] * b[1], "inf">>)
    ELSE Round(a[1] * b[1], NatMul(a[2], b[2]), a[3] + b[3], FALSE)

\* bits by which a numerator is extended so that the quotient has more than
\* 54 bits
QuotientShift(n, d) == Larger(0, SignificandBits + 3 + NatBits(d) - NatBits(n))

\* s * (q + f) * 2^e for the quotient q and the fraction f that a remainder
\* leaves
WithRemainder(s, qr, e) == Exact(s, qr.quotient, e, Len(qr.remainder) # 0)

\* s * (n / d) * 2^e exactly, for d > 0
ExactQuotient(s, n, d, e) ==
    WithRemainder(s, NatDivMod(NatShl(n, QuotientShift(n, d)), d),
                  e - QuotientShift(n, d))

\* a / b: raises on a zero divisor
FDiv(a, b) ==
    IF IsZero(b) THEN ZeroDivisionError
    ELSE IF IsNaN(a) \/ IsNaN(b) THEN NaN
    ELSE IF IsInf(a) THEN (IF IsInf(b) THEN NaN ELSE <<a[1] * b[1], "inf">>)
    ELSE IF IsInf(b) THEN <<a[1] * b[1], <<>>, 0>>
    ELSE RoundExact(ExactQuotient(a[1] * b[1], a[2], b[2], a[3] - b[3]))

\* float(text) of a decimal that is n / d
Dec(n, d) == FDiv(F(n), F(d))

\* the sign of a value that is not nan: 1, 0 or -1
Sign(a) == IF IsZero(a) THEN 0 ELSE a[1]

\* |a| against |b| for finite a # 0 and b # 0: 1, 0 or -1
MagCmp(a, b) ==
    IF Top(a) > Top(b) THEN 1
    ELSE IF Top(a) < Top(b) THEN -1
    ELSE NatCmp(Aligned(a, Smaller(a[3], b[3])), Aligned(b, Smaller(a[3], b[3])))

\* a against b for values of the same sign s # 0
SameSignCmp(a, b, s) ==
    IF IsInf(a) THEN (IF IsInf(b) THEN 0 ELSE s)
    ELSE IF IsInf(b) THEN -s
    ELSE s * MagCmp(a, b)

\* a against b, neither nan: 1, 0 or -1
FCmp(a, b) ==
    IF Sign(a) > Sign(b) THEN 1
    ELSE IF Sign(a) < Sign(b) THEN -1
    ELSE IF Sign(a) = 0 THEN 0
    ELSE SameSignCmp(a, b, Sign(a))

\* the comparisons of floats: every comparison with nan is False
Ordered(a, b) == ~IsNaN(a) /\ ~IsNaN(b)
FLt(a, b) == Ordered(a, b) /\ FCmp(a, b) < 0
FLe(a, b) == Ordered(a, b) /\ FCmp(a, b) <= 0
FGt(a, b) == Ordered(a, b) /\ FCmp(a, b) > 0
FGe(a, b) == Ordered(a, b) /\ FCmp(a, b) >= 0

\* max(a, b) of Python: a unless b > a
FMax(a, b) == IF FGt(b, a) THEN b ELSE a

\* the integer part of |x| for a finite x
Whole(x) ==
    IF x[3] >= 0 THEN ToInt(NatShl(x[2], x[3])) ELSE ToInt(NatShr(x[2], -x[3]))

\* math.floor and math.ceil of a finite |x| < 2^31: integers.  An odd
\* significand with a negative exponent has a fraction
Floor(x) ==
    IF IsZero(x) THEN 0
    ELSE IF x[1] > 0 THEN Whole(x)
    ELSE IF x[3] < 0 THEN -Whole(x) - 1 ELSE -Whole(x)
Ceil(x) ==
    IF IsZero(x) THEN 0
    ELSE IF x[1] < 0 THEN -Whole(x)
    ELSE IF x[3] < 0 THEN Whole(x) + 1 ELSE Whole(x)

\* round(x, 2): the double nearest to the multiple of 1/100 nearest to x,
\* ties between multiples to the even one
Round2(x) ==
    IF ~IsFinite(x) THEN x
    ELSE IF x[3] >= 0 THEN x
    ELSE RoundExact(ExactQuotient(x[1],
                                  Kept(NatMul(x[2], <<100>>), -x[3], FALSE),
                                  <<100>>, 0))

\* powers are bracketed from below and from above with significands of
\* PowBits bits
PowBits == 104

\* the bound m * 2^e
Bound(m, e) == [m |-> m, e |-> e]

\* m * 2^e without its k low bits, rounded up or down
Cut(m, e, k, up) ==
    IF k <= 0 THEN Bound(m, e)
    ELSE IF up /\ ~NatLowZero(m, k) THEN Bound(NatAdd(NatShr(m, k), <<1>>), e + k)
    ELSE Bound(NatShr(m, k), e + k)

CutProduct(m, e, up) == Cut(m, e, NatBits(m) - PowBits, up)

BracketMul(x, y, up) == CutProduct(NatMul(x.m, y.m), x.e + y.e, up)

Squared(h, up) == BracketMul(h, h, up)

TimesIf(sq, x, odd, up) == IF odd THEN BracketMul(sq, x, up) ELSE sq

\* a bound beyond the range of a double: a power of a base >= 1 that passes
\* it stays beyond
Overflowed(x) == x.e + NatBits(x.m) > MaxExponent + 2

RECURSIVE BracketPowFrom(_, _, _, _, _)
\* x ** n from acc = x ** (n \div 2^k): square, and multiply by x where the
\* next lower bit of n is set
BracketPowFrom(x, n, k, acc, up) ==
    IF k = 0 \/ Overflowed(acc) THEN acc
    ELSE BracketPowFrom(x, n, k - 1,
                        TimesIf(Squared(acc, up), x,
                                (n \div 2 ^ (k - 1)) % 2 = 1, up),
                        up)

\* x ** n for a bound x >= 1 and n >= 1
BracketPow(x, n, up) == BracketPowFrom(x, n, NatBits(Limbs(n)) - 1, x, up)

\* pow() of the C library is not correctly rounded: its result is within
\* 1/2 + 1/32 ulp of the power, so that a power within 1/32 ulp (2^-5) of
\* the midpoint of two doubles can become either
PowSlackBits == 5

\* m * 2^e moved up or down by 1/32 of the last of 53 bits
Slackened(m, e, up) ==
    IF up
    THEN Exact(1, NatAdd(m, NatShl(<<1>>, NatBits(m) - SignificandBits - PowSlackBits)),
               e, FALSE)
    ELSE Exact(1, NatSub(m, NatShl(<<1>>, NatBits(m) - SignificandBits - PowSlackBits)),
               e, FALSE)

Widened(x, up) == Slackened(NatShl(x.m, GuardBits), x.e - GuardBits, up)

\* a power beyond the range of a double raises
PowResult(d) == IF IsInf(d) THEN OverflowError ELSE d

PowBound(base, n, up) ==
    PowResult(RoundExact(Widened(BracketPow(Bound(base[2], base[3]), n, up), up)))

\* base ** n for a base >= 1 and an integer n >= 1: the doubles, or the
\* exception, that float.__pow__ can give
FPow(base, n) ==
    IF ~IsFinite(base) THEN {base}
    ELSE {PowBound(base, n, up) : up \in BOOLEAN}
----------------------------------------------------------------------------
(* Program constants.                                                      *)

DaysPerYear == 365
MonthsPerYear == 12
Percent == 100

(* Bounds of the model.                                                    *)
\* starting capital is one of 0, 100, ..., 100 * MaxCapital
MaxCapital == 1
\* a direct call is made with every tenure in -1..MaxTenure
MaxTenure == 3
\* cycles longer than a year run up to MaxDays days
MaxDays == 731
\* a tenure longer than a year
LongTenure == 13
\* tenures for which (1 + r_month) ** n is beyond 2^53 for the larger rates
\* drawn, so that factor - 1 is factor
FlatTenure == 395
FlatSidebarTenure == 476
FlatLowRateTenure == 5000
\* a tenure for which (1 + r_month) ** n is a double for a rate of 100 % a
\* year, and 120 * r_month times it is not
InfTenure == 8850
\* a tenure for which (1 + r_month) ** n is beyond the range of a double for
\* a rate of 100 % a year
HugeTenure == 9000

----------------------------------------------------------------------------
(* Pure computations of the script.                                        *)

\* lines 123, 140, 157: a percentage as a fraction
Pct(p) == FDiv(p, F(Percent))

\* line 167
RawCycles(days) == FDiv(F(DaysPerYear), F(days))

\* mutant: the cycle count rounded to the nearest integer instead of floored
NumCyclesNearest(days, rounded) ==
    IF rounded THEN F(Floor(FAdd(RawCycles(days), Dec(1, 2))))
    ELSE RawCycles(days)

\* lines 167-168: raw_cycles, then floored when round_cycles is ticked
NumCycles(days, rounded) ==
    IF rounded THEN F(Floor(RawCycles(days))) ELSE RawCycles(days)

\* mutant: the annual amount divided by the number of loop iterations
PerCycleByIterations(annual, cyc) ==
    IF FGt(cyc, Zero) THEN FDiv(annual, F(Ceil(cyc))) ELSE Zero

\* lines 174, 202, 203: an annual amount spread over the cycle count
PerCycle(annual, cyc) == IF FGt(cyc, Zero) THEN FDiv(annual, cyc) ELSE Zero

\* line 177: margin on sales -> markup on cost
Markup(mg) ==
    IF FLe(Zero, mg) /\ FLt(mg, One) THEN FDiv(mg, FSub(One, mg)) ELSE Zero

\* line 185: the loan counts
HasLoan(loan, rate) == FGt(loan, Zero) /\ FGe(rate, Zero)

\* lines 181, 187: the year's interest of a loan that is not amortized
InterestOnlyInterest(loan, rate) ==
    IF HasLoan(loan, rate) THEN FMul(loan, rate) ELSE Zero

\* mutant: the guard does not test the principal
EmiDegenerateNoPrincipal(loan, rate, n) == FLt(rate, Zero) \/ n <= 0

\* line 44: the argument guard of compute_emi_schedule_year
EmiDegenerate(loan, rate, n) ==
    FLe(loan, Zero) \/ FLt(rate, Zero) \/ n <= 0

\* line 47
MonthlyRate(rate) == FDiv(rate, F(MonthsPerYear))

\* line 52 for a factor of line 51, or the exception that line 51 raised
AnnuityPayment(loan, r_month, factor) ==
    IF IsError(factor) THEN factor
    ELSE FDiv(FMul(FMul(loan, r_month), factor), FSub(factor, One))

\* lines 50-55: the payments the formula can give and the exceptions it can
\* raise (OverflowError in line 51, ZeroDivisionError in line 52)
EmiOutcomes(loan, r_month, n) ==
    IF FGt(r_month, Zero)
    THEN {AnnuityPayment(loan, r_month, factor) :
             factor \in FPow(FAdd(One, r_month), n)}
    ELSE {FDiv(loan, F(n))}

\* lines 47-55
EmiFormula(loan, rate, n) == EmiOutcomes(loan, MonthlyRate(rate), n)

\* lines 67-71: the principal portion, clamped to the balance, and the
\* payment, adjusted with it
Clamped(pay, out, interest_m, principal_m) ==
    IF FGt(principal_m, out)
    THEN [interest |-> interest_m, principal |-> out,
          emi |-> FAdd(interest_m, out), clamped |-> TRUE]
    ELSE [interest |-> interest_m, principal |-> principal_m,
          emi |-> pay, clamped |-> FALSE]

\* lines 67-71 for the interest of line 66
Portions(pay, out, interest_m) ==
    Clamped(pay, out, interest_m, FSub(pay, interest_m))

\* lines 66-71: one month's interest and principal portions and the
\* (possibly adjusted) payment
MonthPortions(pay, out, r_month) == Portions(pay, out, FMul(out, r_month))

\* lines 73-76 for the portions p of the month
Applied(p, out, interest_total, principal_total) ==
    [emi |-> p.emi,
     outstanding |-> FSub(out, p.principal),
     total_interest_year |-> FAdd(interest_total, p.interest),
     total_principal_year |-> FAdd(principal_total, p.principal),
     interest_m |-> p.interest,
     principal_m |-> p.principal,
     clamped |-> p.clamped]

\* lines 66-76: the locals after one month
MonthStep(pay, out, interest_total, principal_total, r_month) ==
    Applied(MonthPortions(pay, out, r_month), out, interest_total,
            principal_total)

\* line 63: the loop's break test
EmiBreak(month, n, out) == month > n \/ FLe(out, Zero)

\* lines 212-214: the fraction of a partial last cycle
LastFraction(f) == IF FLe(f, Zero) THEN One ELSE f

\* mutant: a zero fraction is not replaced by 1
CycleFractionUnguarded(cyc, rounded, c) ==
    IF ~rounded /\ c = Ceil(cyc) THEN FSub(cyc, F(Floor(cyc))) ELSE One

\* lines 210-214
CycleFraction(cyc, rounded, c) ==
    IF ~rounded /\ c = Ceil(cyc)
    THEN LastFraction(FSub(cyc, F(Floor(cyc))))
    ELSE One

\* lines 216-232: the values of one cycle, given its net profit
CycleRecord(c, frac, cap, gross, fixed, annual, interest, principal, net) ==
    [cycle |-> c,
     cycle_fraction |-> frac,
     starting_cap |-> cap,
     gross_profit |-> gross,
     fixed_this |-> fixed,
     annual_fixed_this |-> annual,
     loan_interest_this |-> interest,
     loan_principal_this |-> principal,
     net_profit_before_tax |-> net,
     ending_capital |-> FAdd(cap, net)]

\* the net profit without the loan principal
CycleAmountsLessCost(c, frac, cap, gross, fixed, annual, interest, principal) ==
    CycleRecord(c, frac, cap, gross, fixed, annual, interest, principal,
                FSub(FSub(FSub(gross, fixed), annual), interest))

\* lines 224-230: the costs are subtracted one after the other
CycleAmounts(c, frac, cap, gross, fixed, annual, interest, principal) ==
    CycleRecord(c, frac, cap, gross, fixed, annual, interest, principal,
                FSub(FSub(FSub(FSub(gross, fixed), annual), interest),
                     principal))

\* mutant: the loan principal is left out of the net profit
CycleValuesLessCost(c, cap, frac, mk, fixed, annual_pc, interest_pc, principal_pc) ==
    CycleAmountsLessCost(c, frac, cap, FMul(FMul(cap, mk), frac),
                         FMul(fixed, frac), FMul(annual_pc, frac),
                         FMul(interest_pc, frac), FMul(principal_pc, frac))

\* lines 216-232: the values computed in one cycle, unrounded
CycleValues(c, cap, frac, mk, fixed, annual_pc, interest_pc, principal_pc) ==
    CycleAmounts(c, frac, cap, FMul(FMul(cap, mk), frac),
                 FMul(fixed, frac), FMul(annual_pc, frac),
                 FMul(interest_pc, frac), FMul(principal_pc, frac))

\* lines 234-246: the row appended to rows, every amount rounded to 2 places
Row(v) ==
    [cycle |-> v.cycle,
     starting_cap |-> Round2(v.starting_cap),
     gross_profit |-> Round2(v.gross_profit),
     fixed_this |-> Round2(v.fixed_this),
     annual_fixed_this |-> Round2(v.annual_fixed_this),
     loan_interest_this |-> Round2(v.loan_interest_this),
     loan_principal_this |-> Round2(v.loan_principal_this),
     net_profit_before_tax |-> Round2(v.net_profit_before_tax),
     ending_capital |-> Round2(v.ending_capital)]

\* mutant: the capital is not carried forward
NextCapitalNotCarried(v) == v.starting_cap

\* line 248: the capital carried into the next cycle
NextCapital(v) == v.ending_capital

\* mutant: no floor at 0
TaxSigned(profit, rate) == FMul(profit, rate)

\* line 255
Tax(profit, rate) == FMax(FMul(profit, rate), Zero)

\* mutant: without a positive capital the division is skipped, not the result
RoiPctUndivided(net, start) ==
    IF FGt(start, Zero) THEN FMul(FDiv(net, start), F(Percent))
    ELSE FMul(net, F(Percent))

\* line 259
RoiPct(net, start) ==
    IF FGt(start, Zero) THEN FMul(FDiv(net, start), F(Percent)) ELSE Zero

----------------------------------------------------------------------------
(* State.                                                                  *)

VARIABLES
    entry,                  \* "app": the script runs; "emi": the function is called
    starting_capital, cycle_days, margin, fixed_cost_cycle, annual_fixed_cost,
    loan_amount, loan_interest_rate, loan_type, loan_tenure_months,
    tax_rate, round_cycles, \* the sidebar inputs (lines 112-159)
    pc,                     \* position in the script
    exception,              \* the exception raised, or "none"
    cycles, annual_fixed_per_cycle, markup,
    r_month, emi, outstanding, total_interest_year, total_principal_year, m,
    schedule,               \* history of the months simulated (not in the code)
    ret,                    \* value returned by compute_emi_schedule_year
    emi_monthly, annual_loan_interest, annual_principal_repayment,
    loan_outstanding_end_year, loan_interest_per_cycle, loan_principal_per_cycle,
    capital, cycle, rows,
    cycle_log,              \* history of the unrounded cycle values (not in the code)
    cumulative_profit, tax, net_income, ending_capital_after_tax, roi_pct

inputs == <<entry, starting_capital, cycle_days, margin, fixed_cost_cycle,
            annual_fixed_cost, loan_amount, loan_interest_rate, loan_type,
            loan_tenure_months, tax_rate, round_cycles>>
core == <<cycles, annual_fixed_per_cycle, markup>>
emiLocals == <<r_month, emi, outstanding, total_interest_year,
               total_principal_year, m, schedule>>
loanVars == <<emi_monthly, annual_loan_interest, annual_principal_repayment,
              loan_outstanding_end_year, loan_interest_per_cycle,
              loan_principal_per_cycle>>
simVars == <<capital, cycle, rows, cycle_log>>
summary == <<cumulative_profit, tax, net_income, ending_capital_after_tax,
             roi_pct>>
vars == <<inputs, pc, exception, core, emiLocals, ret, loanVars, simVars,
         summary>>

InterestOnly == "Interest-only (CC/OD style)"
EmiMonthly == "EMI Monthly (Term Loan)"

----------------------------------------------------------------------------
(* Inputs.                                                                 *)

Capitals == {F(100 * k) : k \in 0..MaxCapital}
\* float("2.675") and float("0.005") lie just below the middle of two cents;
\* 0.125 is a double in the middle of two
TieCapitals == {Dec(2675, 1000), Dec(5, 1000), Dec(125, 1000)}
\* 73 and 365 divide the year; 60 and 120 leave a partial cycle; 366 exceeds
\* it
CycleDays == {60, 73, 120, DaysPerYear, DaysPerYear + 1}
LongCycleDays == (DaysPerYear + 2)..MaxDays
\* a margin of 100 % takes the fallback markup of 0
Margins == {Pct(F(50)), Pct(F(100))}
\* <<fixed cost per cycle, annual fixed cost>>
NoCosts == <<Zero, Zero>>
SomeCosts == <<F(10), F(100)>>
Costs == {NoCosts, SomeCosts}
StandardTax == Pct(F(30))
TaxRates == {Pct(F(0)), StandardTax, Pct(F(100))}
\* rates of a few ulps of 1.0: with 3 ulps a year 1 + r_month is 1.0, with
\* 27/4 it is 1 ulp above 1.0, which is 16/9 of r_month
TinyRates == {<<1, <<3>>, -52>>, <<1, <<27>>, -54>>}

\* <<loan amount, rate, type, tenure>>; lines 146-150: the tenure is asked
\* for only for an EMI loan
NoLoan == <<Zero, Zero, InterestOnly, 0>>
GridLoans ==
    {NoLoan,
     <<F(120), Pct(F(100)), InterestOnly, 0>>,
     <<F(120), Pct(F(0)), EmiMonthly, LongTenure>>,
     <<F(120), Pct(F(100)), EmiMonthly, 2>>}
\* loans amortized over tenures of all lengths
EmiLoans ==
    {<<F(120), Pct(F(12)), EmiMonthly, LongTenure>>,
     <<F(120), Pct(F(0)), EmiMonthly, 2>>,
     <<F(120), Pct(Dec(995, 10)), EmiMonthly, FlatSidebarTenure>>,
     <<F(120), Pct(F(12)), EmiMonthly, FlatLowRateTenure>>,
     <<F(120), Pct(F(100)), EmiMonthly, InfTenure>>,
     <<F(120), Pct(F(100)), EmiMonthly, HugeTenure>>}

\* the sidebar as filled in
AppCase(cap, days, mg, costs, loan, tx, rounded) ==
    [starting_capital |-> cap, cycle_days |-> days, margin |-> mg,
     fixed_cost_cycle |-> costs[1], annual_fixed_cost |-> costs[2],
     loan_amount |-> loan[1], loan_interest_rate |-> loan[2],
     loan_type |-> loan[3], loan_tenure_months |-> loan[4],
     tax_rate |-> tx, round_cycles |-> rounded]

\* capitals, cycle lengths, margins, costs, loans and tax rates
GridCases ==
    {AppCase(cap, days, mg, costs, loan, tx, rounded) :
        cap \in Capitals, days \in CycleDays, mg \in Margins, costs \in Costs,
        loan \in GridLoans, tx \in TaxRates, rounded \in BOOLEAN}

\* amortized loans
LoanCases ==
    {AppCase(F(100), days, Pct(F(50)), SomeCosts, loan, StandardTax, rounded) :
        days \in {73, 120}, loan \in EmiLoans, rounded \in BOOLEAN}

\* two cycles without a loan from amounts in the middle of two cents
TieCases ==
    {AppCase(cap, 146, Pct(F(50)), <<fixed, Zero>>, NoLoan, StandardTax, TRUE) :
        cap \in TieCapitals, fixed \in {Zero, Dec(125, 1000)}}

\* cycles longer than a year, floored
LongCycleCases ==
    {AppCase(F(100), days, Pct(F(50)), SomeCosts, NoLoan, StandardTax, TRUE) :
        days \in LongCycleDays}

AppCases == GridCases \cup LoanCases \cup TieCases
                \cup LongCycleCases

\* arguments of a direct call of compute_emi_schedule_year
CallLoans == {F(-120), Zero, F(120)}
CallRates == {F(-1), Zero, Dec(12, 100), One, F(6), F(7)} \cup TinyRates
CallTenures ==
    (-1..MaxTenure) \cup {LongTenure, FlatTenure, FlatSidebarTenure,
                          FlatLowRateTenure, InfTenure, HugeTenure}

Blank ==
    /\ cycles = Zero /\ annual_fixed_per_cycle = Zero /\ markup = Zero
    /\ r_month = Zero /\ emi = Zero /\ outstanding = Zero
    /\ total_interest_year = Zero /\ total_principal_year = Zero
    /\ m = 0 /\ schedule = <<>> /\ ret = <<>>
    /\ emi_monthly = Zero /\ annual_loan_interest = Zero
    /\ annual_principal_repayment = Zero /\ loan_outstanding_end_year = Zero
    /\ loan_interest_per_cycle = Zero /\ loan_principal_per_cycle = Zero
    /\ capital = Zero
    /\ cycle = 0 /\ rows = <<>> /\ cycle_log = <<>>
    /\ exception = "none"
    /\ cumulative_profit = Zero /\ tax = Zero /\ net_income = Zero
    /\ ending_capital_after_tax = Zero /\ roi_pct = Zero

\* lines 112-159: the sidebar has been read
InitApp ==
    /\ entry = "app"
    /\ pc = "start"
    /\ \E c \in AppCases :
          /\ starting_capital = c.starting_capital
          /\ cycle_days = c.cycle_days
          /\ margin = c.margin
          /\ fixed_cost_cycle = c.fixed_cost_cycle
          /\ annual_fixed_cost = c.annual_fixed_cost
          /\ loan_amount = c.loan_amount
          /\ loan_interest_rate = c.loan_interest_rate
          /\ loan_type = c.loan_type
          /\ loan_tenure_months = c.loan_tenure_months
          /\ tax_rate = c.tax_rate
          /\ round_cycles = c.round_cycles
    /\ Blank

\* compute_emi_schedule_year is called on its own
InitCall ==
    /\ entry = "emi"
    /\ pc = "emi_entry"
    /\ starting_capital = Zero /\ cycle_days = 1 /\ margin = Zero
    /\ fixed_cost_cycle = Zero /\ annual_fixed_cost = Zero
    /\ tax_rate = Zero /\ round_cycles = TRUE
    /\ loan_type = EmiMonthly
    /\ loan_amount \in CallLoans
    /\ loan_interest_rate \in CallRates
    /\ loan_tenure_months \in CallTenures
    /\ Blank

Init == InitApp \/ InitCall

----------------------------------------------------------------------------
(* Actions.                                                                *)

\* lines 162-177: checks, cycle count, annual allocation, markup
CoreCalculations ==
    /\ pc = "start"
    /\ IF cycle_days <= 0
       THEN pc' = "stopped_error" /\ UNCHANGED core
       ELSE \E c \in {NumCycles(cycle_days, round_cycles)} :
               /\ cycles' = c
               /\ IF FLe(c, Zero)
                  THEN /\ pc' = "stopped_warning"
                       /\ UNCHANGED <<annual_fixed_per_cycle, markup>>
                  ELSE /\ pc' = "loan"
                       /\ annual_fixed_per_cycle' = PerCycle(annual_fixed_cost, c)
                       /\ markup' = Markup(margin)
    /\ UNCHANGED <<inputs, exception, emiLocals, ret, loanVars, simVars, summary>>

\* lines 180-190 and 202-207: no loan, or an interest-only loan
LoanWithoutSchedule ==
    /\ pc = "loan"
    /\ ~(HasLoan(loan_amount, loan_interest_rate) /\ loan_type = EmiMonthly)
    /\ \E interest \in {InterestOnlyInterest(loan_amount, loan_interest_rate)} :
          /\ annual_loan_interest' = interest
          /\ loan_interest_per_cycle' = PerCycle(interest, cycles)
    /\ emi_monthly' = Zero
    /\ annual_principal_repayment' = Zero
    /\ loan_outstanding_end_year' = loan_amount
    /\ loan_principal_per_cycle' = PerCycle(Zero, cycles)
    /\ capital' = starting_capital
    /\ cycle' = 1
    /\ pc' = "cycles"
    /\ UNCHANGED <<inputs, exception, core, emiLocals, ret, rows, cycle_log,
                   summary>>

\* lines 185, 191-197: the call of compute_emi_schedule_year
LoanCallEmi ==
    /\ pc = "loan"
    /\ HasLoan(loan_amount, loan_interest_rate)
    /\ loan_type = EmiMonthly
    /\ pc' = "emi_entry"
    /\ UNCHANGED <<inputs, exception, core, emiLocals, ret, loanVars, simVars, summary>>

Return(value) ==
    /\ ret' = value
    /\ pc' = IF entry = "app" THEN "loan_assign" ELSE "done"

\* lines 44-45: the zero summary
EmiEntryDegenerate ==
    /\ pc = "emi_entry"
    /\ EmiDegenerate(loan_amount, loan_interest_rate, loan_tenure_months)
    /\ Return(<<Zero, Zero, Zero, loan_amount>>)
    /\ UNCHANGED <<inputs, exception, core, emiLocals, loanVars, simVars, summary>>

\* lines 47-55: the payment formula raises; nothing catches the exception,
\* in the function or in the script (line 193)
EmiEntryRaises ==
    /\ pc = "emi_entry"
    /\ ~EmiDegenerate(loan_amount, loan_interest_rate, loan_tenure_months)
    /\ \E e \in EmiFormula(loan_amount, loan_interest_rate, loan_tenure_months) :
          /\ IsError(e)
          /\ exception' = e[1]
    /\ r_month' = MonthlyRate(loan_interest_rate)
    /\ pc' = "raised"
    /\ UNCHANGED <<inputs, core, emi, outstanding, total_interest_year,
                   total_principal_year, m, schedule, ret, loanVars, simVars,
                   summary>>

\* lines 47-59: the payment and the running totals
EmiEntry ==
    /\ pc = "emi_entry"
    /\ ~EmiDegenerate(loan_amount, loan_interest_rate, loan_tenure_months)
    /\ \E e \in EmiFormula(loan_amount, loan_interest_rate, loan_tenure_months) :
          /\ ~IsError(e)
          /\ emi' = e
    /\ r_month' = MonthlyRate(loan_interest_rate)
    /\ outstanding' = loan_amount
    /\ total_interest_year' = Zero
    /\ total_principal_year' = Zero
    /\ m' = 1
    /\ schedule' = <<>>
    /\ pc' = "emi_loop"
    /\ UNCHANGED <<inputs, exception, core, ret, loanVars, simVars, summary>>

\* lines 62-76: one month of the schedule
EmiMonth ==
    /\ pc = "emi_loop"
    /\ m <= MonthsPerYear
    /\ ~EmiBreak(m, loan_tenure_months, outstanding)
    /\ \E s \in {MonthStep(emi, outstanding, total_interest_year,
                           total_principal_year, r_month)} :
          /\ emi' = s.emi
          /\ outstanding' = s.outstanding
          /\ total_interest_year' = s.total_interest_year
          /\ total_principal_year' = s.total_principal_year
          /\ schedule' = Append(schedule,
                 [month |-> m, before |-> outstanding,
                  interest |-> s.interest_m, principal |-> s.principal_m,
                  clamped |-> s.clamped,
                  after |-> s.outstanding,
                  interest_total |-> s.total_interest_year,
                  principal_total |-> s.total_principal_year])
    /\ m' = m + 1
    /\ UNCHANGED <<inputs, exception, pc, core, r_month, ret, loanVars, simVars,
                   summary>>

\* lines 62-64, 78: the loop ends, the function returns
EmiReturn ==
    /\ pc = "emi_loop"
    /\ m > MonthsPerYear \/ EmiBreak(m, loan_tenure_months, outstanding)
    /\ Return(<<emi, total_interest_year, total_principal_year, outstanding>>)
    /\ UNCHANGED <<inputs, exception, core, emiLocals, loanVars, simVars, summary>>

\* lines 192-207: the caller takes the result
LoanAssign ==
    /\ pc = "loan_assign"
    /\ emi_monthly' = ret[1]
    /\ annual_loan_interest' = ret[2]
    /\ annual_principal_repayment' = ret[3]
    /\ loan_outstanding_end_year' = ret[4]
    /\ loan_interest_per_cycle' = PerCycle(ret[2], cycles)
    /\ loan_principal_per_cycle' = PerCycle(ret[3], cycles)
    /\ capital' = starting_capital
    /\ cycle' = 1
    /\ pc' = "cycles"
    /\ UNCHANGED <<inputs, exception, core, emiLocals, ret, rows, cycle_log,
                   summary>>

\* lines 209-248: one cycle
CycleStep ==
    /\ pc = "cycles"
    /\ cycle <= Ceil(cycles)
    /\ \E v \in {CycleValues(cycle, capital,
                             CycleFraction(cycles, round_cycles, cycle), markup,
                             fixed_cost_cycle, annual_fixed_per_cycle,
                             loan_interest_per_cycle, loan_principal_per_cycle)} :
          /\ rows' = Append(rows, Row(v))
          /\ cycle_log' = Append(cycle_log, v)
          /\ capital' = NextCapital(v)
    /\ cycle' = cycle + 1
    /\ UNCHANGED <<inputs, exception, pc, core, emiLocals, ret, loanVars, summary>>

\* lines 250-259: the year-end tax pass
YearEnd ==
    /\ pc = "cycles"
    /\ cycle > Ceil(cycles)
    /\ \E profit \in {FSub(capital, starting_capital)} :
          \E t \in {Tax(profit, tax_rate)} :
             \E net \in {FSub(profit, t)} :
                /\ cumulative_profit' = profit
                /\ tax' = t
                /\ net_income' = net
                /\ ending_capital_after_tax' = FAdd(starting_capital, net)
                /\ roi_pct' = RoiPct(net, starting_capital)
    /\ pc' = "done"
    /\ UNCHANGED <<inputs, exception, core, emiLocals, ret, loanVars, simVars>>

Next ==
    \/ CoreCalculations
    \/ LoanWithoutSchedule
    \/ LoanCallEmi
    \/ EmiEntryDegenerate
    \/ EmiEntryRaises
    \/ EmiEntry
    \/ EmiMonth
    \/ EmiReturn
    \/ LoanAssign
    \/ CycleStep
    \/ YearEnd

Spec == Init /\ [][Next]_vars

----------------------------------------------------------------------------
(* Properties.                                                             *)

RECURSIVE SumFrom(_, _, _, _)
\* acc plus the fields named f of the records of q from the i-th on, added
\* one after the other as doubles
SumFrom(q, f, i, acc) ==
    IF i > Len(q) THEN acc ELSE SumFrom(q, f, i + 1, FAdd(acc, q[i][f]))

\* the sum of the field named f over the records of sequence q
SumOver(q, f) == SumFrom(q, f, 1, Zero)

\* a == b of floats
FEq(a, b) == Ordered(a, b) /\ FCmp(a, b) = 0

\* abs(x)
FAbs(x) == IF IsNaN(x) THEN x ELSE [x EXCEPT ![1] = 1]

\* |a - b| <= tol
Within(a, b, tol) == FLe(FAbs(FSub(a, b)), tol)

\* the floating tolerance of the specification, 1e-6
Tolerance == Dec(1, 1000000)

\* 2^-40, about 1e-12: a bound on the relative rounding error of a sum of a
\* year's doubles
RelTol == <<1, <<1>>, -40>>

\* a and b are equal but for the rounding of doubles
Close(a, b) == Within(a, b, FMul(RelTol, FAbs(b)))

\* half a cent
HalfCent == Dec(5, 1000)

\* the whole number of cents nearest to a finite |x|, as limbs
CentsMag(x) ==
    IF x[3] >= 0 THEN NatShl(NatMul(x[2], <<100>>), x[3])
    ELSE Kept(NatMul(x[2], <<100>>), -x[3], FALSE)

\* a stored amount |x| < 2^31 / 100 in whole cents
CentsOf(x) == IF IsZero(x) THEN 0 ELSE x[1] * ToInt(CentsMag(x))

\* principal > 0, rate >= 0 and tenure > 0
Scheduled ==
    /\ FGt(loan_amount, Zero)
    /\ FGe(loan_interest_rate, Zero)
    /\ loan_tenure_months > 0

\* in a call with principal > 0, rate >= 0 and tenure > 0, principal repaid
\* plus outstanding balance equals the principal to within 1e-6 after every
\* simulated month and in the returned summary, and the interest paid is
\* never negative
PrincipalConserved ==
    Scheduled =>
        /\ pc = "emi_loop" =>
              /\ Within(FAdd(total_principal_year, outstanding), loan_amount,
                        Tolerance)
              /\ FGe(total_interest_year, Zero)
        /\ ret # <<>> =>
              /\ Within(FAdd(ret[3], ret[4]), loan_amount, Tolerance)
              /\ FGe(ret[2], Zero)

\* a schedule of several months returned with interest paid and part of the
\* principal still outstanding
PrincipalConservedWitness ==
    /\ Scheduled
    /\ ret # <<>>
    /\ Len(schedule) >= 2
    /\ FGt(ret[2], Zero) /\ FGt(ret[3], Zero) /\ FGt(ret[4], Zero)

\* a returned summary whose principal repaid and outstanding balance do not
\* add up to the principal exactly
InexactConservationWitness ==
    /\ Scheduled
    /\ ret # <<>>
    /\ ~FEq(FAdd(ret[3], ret[4]), loan_amount)

\* C1: every call of compute_emi_schedule_year with principal > 0, rate >= 0
\* and tenure > 0 has a result, in which principal repaid plus outstanding
\* balance equals the principal within the tolerance of 1e-6 (as after every
\* simulated month) and the interest paid is not negative.
C1_ResultConserved ==
    /\ PrincipalConserved
    /\ Scheduled => exception = "none"

\* C2: each cycle record's ending capital is the next record's starting
\* capital, in the stored rows and in the unrounded values alike; the first
\* record starts from the starting capital.
C2_Compounding ==
    /\ \A i \in 1..(Len(rows) - 1) :
          /\ rows[i].ending_capital = rows[i + 1].starting_cap
          /\ FEq(rows[i].ending_capital, rows[i + 1].starting_cap)
    /\ \A i \in 1..(Len(cycle_log) - 1) :
          /\ cycle_log[i].ending_capital = cycle_log[i + 1].starting_cap
          /\ FEq(cycle_log[i].ending_capital, cycle_log[i + 1].starting_cap)
    /\ Len(rows) >= 1 =>
          /\ cycle_log[1].starting_cap = starting_capital
          /\ rows[1].starting_cap = Round2(starting_capital)

\* a second cycle that starts from a capital other than the original one,
\* which is stored rounded to another double
C2_Witness ==
    /\ Len(rows) >= 2
    /\ ~FEq(rows[2].starting_cap, rows[1].starting_cap)
    /\ ~FEq(rows[2].starting_cap, cycle_log[2].starting_cap)

\* C3: the year-end tax is never negative, is 0 when the cumulative profit is
\* not positive, is profit x rate otherwise, and net income is profit - tax.
C3_Tax ==
    pc = "done" /\ entry = "app" =>
        /\ cumulative_profit = FSub(capital, starting_capital)
        /\ FGe(tax, Zero)
        /\ FLe(cumulative_profit, Zero) => FEq(tax, Zero)
        /\ FGt(cumulative_profit, Zero) => tax = FMul(cumulative_profit, tax_rate)
        /\ net_income = FSub(cumulative_profit, tax)

\* a year that ends with a loss under a positive tax rate
C3_Witness ==
    /\ pc = "done" /\ entry = "app"
    /\ FLt(cumulative_profit, Zero)
    /\ FGt(tax_rate, Zero)
    /\ FEq(tax, Zero)

\* a year that ends with a profit, taxed
C3_ProfitWitness ==
    /\ pc = "done" /\ entry = "app"
    /\ FGt(cumulative_profit, Zero)
    /\ FGt(tax, Zero)
    /\ FLt(net_income, cumulative_profit)

\* C4: with round_cycles ticked the run emits floor(365 / cycle_days) records
\* (one for 365 days); from 366 days on the count is 0 and the run stops with
\* the warning before any loan figure, record or summary is computed.
C4_FlooredCycles ==
    entry = "app" /\ round_cycles =>
        /\ pc = "done" => Len(rows) = DaysPerYear \div cycle_days
        /\ pc = "done" /\ cycle_days = DaysPerYear => Len(rows) = 1
        /\ cycle_days > DaysPerYear /\ pc # "start" =>
              /\ pc = "stopped_warning"
              /\ cycles = Zero
              /\ rows = <<>> /\ cycle_log = <<>> /\ ret = <<>>
              /\ annual_loan_interest = Zero /\ capital = Zero
              /\ net_income = Zero /\ roi_pct = Zero

\* the run of a 366-day cycle stopped with the warning
C4_Witness ==
    /\ entry = "app" /\ round_cycles
    /\ cycle_days = DaysPerYear + 1
    /\ pc = "stopped_warning"

\* the run of a 365-day cycle finished with one record
C4_YearWitness ==
    /\ entry = "app" /\ round_cycles
    /\ cycle_days = DaysPerYear
    /\ pc = "done" /\ Len(rows) = 1

\* C5: called with a principal <= 0, a tenure <= 0 or a rate < 0,
\* compute_emi_schedule_year returns (0, 0, 0, principal) and runs no month.
C5_ZeroSummary ==
    entry = "emi" /\ ~Scheduled /\ pc # "emi_entry" =>
        /\ pc = "done"
        /\ exception = "none"
        /\ ret = <<Zero, Zero, Zero, loan_amount>>
        /\ schedule = <<>>
        /\ m = 0

\* the function has returned from a call with a negative principal
C5_Witness ==
    /\ entry = "emi" /\ pc = "done"
    /\ FLt(loan_amount, Zero)
    /\ loan_tenure_months > 0 /\ FGe(loan_interest_rate, Zero)
    /\ ret = <<Zero, Zero, Zero, loan_amount>>

\* C6: with a positive starting capital the ROI is positive exactly when the
\* net income is; with a starting capital of 0 the ROI is exactly 0.
C6_RoiSign ==
    pc = "done" /\ entry = "app" =>
        /\ FGt(starting_capital, Zero) =>
              (FGt(roi_pct, Zero) <=> FGt(net_income, Zero))
        /\ FEq(starting_capital, Zero) => roi_pct = Zero

\* a year run from a starting capital of 0 that ends with a nonzero income
C6_Witness ==
    /\ pc = "done" /\ entry = "app"
    /\ FEq(starting_capital, Zero)
    /\ ~FEq(net_income, Zero)
    /\ roi_pct = Zero

\* a year run from a positive starting capital with a positive income
C6_GainWitness ==
    /\ pc = "done" /\ entry = "app"
    /\ FGt(starting_capital, Zero)
    /\ FGt(net_income, Zero)
    /\ FGt(roi_pct, Zero)

\* every amount of row r is round(x, 2) of the value x computed in v
Stored(v, r) ==
    /\ r.cycle = v.cycle
    /\ \A f \in DOMAIN r \ {"cycle"} : r[f] = Round2(v[f])

\* the stored ending capital less the stored starting capital and the stored
\* net profit, in cents
EndingGap(r) ==
    CentsOf(r.ending_capital)
        - (CentsOf(r.starting_cap) + CentsOf(r.net_profit_before_tax))

\* the stored net profit less the stored gross profit without the four
\* stored costs, in cents
NetGap(r) ==
    CentsOf(r.net_profit_before_tax)
        - (CentsOf(r.gross_profit)
              - (CentsOf(r.fixed_this) + CentsOf(r.annual_fixed_this)
                    + CentsOf(r.loan_interest_this)
                    + CentsOf(r.loan_principal_this)))

\* C7 as stated: the stored fields of every record, amounts of whole cents,
\* satisfy ending = starting + net and
\* net = gross - (sum of the four costs).
C7_StoredFieldsExact ==
    \A i \in 1..Len(rows) : EndingGap(rows[i]) = 0 /\ NetGap(rows[i]) = 0

\* the values computed in a cycle satisfy both equalities in the arithmetic
\* of the code
Computed(v) ==
    /\ FEq(v.ending_capital, FAdd(v.starting_cap, v.net_profit_before_tax))
    /\ FEq(v.net_profit_before_tax,
           FSub(FSub(FSub(FSub(v.gross_profit, v.fixed_this),
                          v.annual_fixed_this),
                     v.loan_interest_this),
                v.loan_principal_this))

\* C7 amended: the values computed in each cycle satisfy both equalities in
\* the double arithmetic of the code; the stored fields are each the
\* computed value rounded to 2 decimals and satisfy ending = starting + net
\* to within one cent and net = gross - costs to within three cents.
C7_CycleIdentity ==
    /\ Len(rows) = Len(cycle_log)
    /\ \A i \in 1..Len(cycle_log) :
          /\ Computed(cycle_log[i])
          /\ Stored(cycle_log[i], rows[i])
          /\ Abs(EndingGap(rows[i])) <= 1
          /\ Abs(NetGap(rows[i])) <= 3

\* a record with costs whose stored ending capital is one cent off the sum
\* of the stored starting capital and net profit
C7_Witness ==
    \E i \in 1..Len(rows) :
        /\ EndingGap(rows[i]) # 0
        /\ FGt(cycle_log[i].fixed_this, Zero)
        /\ FGt(cycle_log[i].annual_fixed_this, Zero)

\* C8: the loop runs cycles 1..ceil(cycles) in order; every cycle_fraction is
\* positive: 1 except for the last cycle of a run without round_cycles whose
\* cycle count is not an integer, where it is cycles - floor(cycles).
C8_Fractions ==
    entry = "app" =>
        /\ Len(cycle_log) <= Ceil(cycles)
        /\ pc = "done" => Len(cycle_log) = Ceil(cycles)
        /\ pc = "cycles" => cycle = Len(cycle_log) + 1
        /\ \A i \in 1..Len(cycle_log) :
              /\ cycle_log[i].cycle = i
              /\ rows[i].cycle = i
              /\ FGt(cycle_log[i].cycle_fraction, Zero)
              /\ IF ~round_cycles /\ i = Ceil(cycles)
                       /\ Ceil(cycles) # Floor(cycles)
                 THEN cycle_log[i].cycle_fraction
                          = FSub(cycles, F(Floor(cycles)))
                 ELSE cycle_log[i].cycle_fraction = One

\* a finished run without round_cycles whose last cycle is a partial one
\* after at least one full cycle
C8_Witness ==
    /\ pc = "done" /\ entry = "app" /\ ~round_cycles
    /\ Len(cycle_log) >= 2
    /\ FLt(cycle_log[Len(cycle_log)].cycle_fraction, One)
    /\ cycle_log[1].cycle_fraction = One

\* a finished run without round_cycles whose cycle count is an integer
C8_WholeWitness ==
    /\ pc = "done" /\ entry = "app" /\ ~round_cycles
    /\ Len(cycle_log) >= 2
    /\ Ceil(cycles) = Floor(cycles)
    /\ cycle_log[Len(cycle_log)].cycle_fraction = One

\* C9: every month's principal portion lies between 0 and the balance before
\* it (clamped to the balance when payment - interest exceeds it), so the
\* balance is never negative and never grows; at most min(tenure, 12) months
\* are simulated.
C9_Schedule ==
    /\ \A i \in 1..Len(schedule) :
          /\ schedule[i].month = i
          /\ FGe(schedule[i].principal, Zero)
          /\ FLe(schedule[i].principal, schedule[i].before)
          /\ schedule[i].clamped => schedule[i].principal = schedule[i].before
          /\ FGe(schedule[i].after, Zero)
          /\ FLe(schedule[i].after, schedule[i].before)
          /\ schedule[i].before =
                IF i = 1 THEN loan_amount ELSE schedule[i - 1].after
    /\ Len(schedule) <= MonthsPerYear
    /\ Len(schedule) <= IF loan_tenure_months > 0 THEN loan_tenure_months ELSE 0
    /\ pc = "emi_loop" => FGe(outstanding, Zero) /\ m = Len(schedule) + 1

\* what C9 says without the lower bound of the principal portion and the
\* balance that never grows: the portion is at most the balance, the final
\* payment is clamped to it, the balance is never negative, and at most
\* min(tenure, 12) months are simulated
ScheduleBounded ==
    /\ \A i \in 1..Len(schedule) :
          /\ schedule[i].month = i
          /\ FLe(schedule[i].principal, schedule[i].before)
          /\ schedule[i].clamped => schedule[i].principal = schedule[i].before
          /\ FGe(schedule[i].after, Zero)
          /\ schedule[i].before =
                IF i = 1 THEN loan_amount ELSE schedule[i - 1].after
    /\ Len(schedule) <= MonthsPerYear
    /\ Len(schedule) <= IF loan_tenure_months > 0 THEN loan_tenure_months ELSE 0
    /\ pc = "emi_loop" => FGe(outstanding, Zero) /\ m = Len(schedule) + 1

\* a final payment was clamped to the balance after an ordinary month
ClampedWitness ==
    /\ Len(schedule) >= 2
    /\ schedule[Len(schedule)].clamped
    /\ ~schedule[1].clamped
    /\ FGt(schedule[Len(schedule)].interest, Zero)

\* a month with a negative principal portion, in a run of the script
NegativePrincipalWitness ==
    /\ entry = "app"
    /\ \E i \in 1..Len(schedule) : FLt(schedule[i].principal, Zero)

\* a month after which the balance is larger than before
GrowingBalanceWitness ==
    \E i \in 1..Len(schedule) : FGt(schedule[i].after, schedule[i].before)

\* C10 as stated: over a finished run the stored per-cycle allocations add up
\* to the annual amounts, within the tolerance of 1e-6.
C10_StoredAllocationsSum ==
    pc = "done" /\ entry = "app" =>
        /\ Within(SumOver(rows, "annual_fixed_this"), annual_fixed_cost,
                  Tolerance)
        /\ Within(SumOver(rows, "loan_interest_this"), annual_loan_interest,
                  Tolerance)
        /\ Within(SumOver(rows, "loan_principal_this"),
                  annual_principal_repayment, Tolerance)

\* the sum of the field named f over q is the annual amount to within half a
\* cent per record, and the rounding of the doubles
StoredSum(q, f, annual) ==
    Within(SumOver(q, f), annual,
           FAdd(FMul(F(Len(q)), HalfCent), FMul(RelTol, FAbs(annual))))

\* C10 amended: over a finished run the cycle fractions add up to the cycle
\* count, and the allocations as computed add up to the annual fixed cost
\* and to the loan's first-year interest and principal but for the rounding
\* of double arithmetic (a relative 2^-40); the stored allocations, each
\* rounded to 2 decimals, add up to the annual amount to within half a cent
\* per cycle on top of that.
C10_AllocationsSum ==
    pc = "done" /\ entry = "app" =>
        /\ FEq(SumOver(cycle_log, "cycle_fraction"), cycles)
        /\ Close(SumOver(cycle_log, "annual_fixed_this"), annual_fixed_cost)
        /\ Close(SumOver(cycle_log, "loan_interest_this"), annual_loan_interest)
        /\ Close(SumOver(cycle_log, "loan_principal_this"),
                 annual_principal_repayment)
        /\ StoredSum(rows, "annual_fixed_this", annual_fixed_cost)
        /\ StoredSum(rows, "loan_interest_this", annual_loan_interest)
        /\ StoredSum(rows, "loan_principal_this", annual_principal_repayment)

\* a finished run with a partial last cycle, an annual fixed cost and an
\* amortizing loan, whose stored fixed-cost allocations miss the annual amount
C10_Witness ==
    /\ pc = "done" /\ entry = "app" /\ ~round_cycles
    /\ Ceil(cycles) # Floor(cycles)
    /\ FGt(annual_fixed_cost, Zero)
    /\ FGt(annual_loan_interest, Zero)
    /\ FGt(annual_principal_repayment, Zero)
    /\ ~Within(SumOver(rows, "annual_fixed_this"), annual_fixed_cost, Tolerance)

\* a finished run whose allocations as computed do not add up to the annual
\* fixed cost exactly
C10_RoundingWitness ==
    /\ pc = "done" /\ entry = "app"
    /\ ~FEq(SumOver(cycle_log, "annual_fixed_this"), annual_fixed_cost)

=============================================================================
